---- MODULE Spec2Model ----
(***************************************************************************)
(* The knowledge-base inference engine of minesweeper.py (MinesweeperAI    *)
(* and Sentence), driven by a Minesweeper board.  A cell is a pair <<i,j>>,*)
(* a Sentence is a record [cells, count], `knowledge` is the ordered list  *)
(* of Sentences held by the engine.                                        *)
(***************************************************************************)
EXTENDS Integers, Sequences, FiniteSets, TLC

\* Largest grid Minesweeper(height, width) and MinesweeperAI(height, width) are
\* built with: at most MaxHeight rows, MaxWidth columns and MaxCells cells.
MaxHeight == 2
MaxWidth == 3
MaxCells == 6
\* Largest number of mines the board is built with.
MaxMines == 2
\* Largest number of engine operations in a run with unconstrained inputs.
MaxOps == 3

VARIABLES
    height,      \* MinesweeperAI.height (and Minesweeper.height)
    width,       \* MinesweeperAI.width (and Minesweeper.width)
    board,       \* Minesweeper.mines: the coordinates that really hold a mine
    moves_made,  \* MinesweeperAI.moves_made
    mines,       \* MinesweeperAI.mines
    safes,       \* MinesweeperAI.safes
    knowledge,   \* MinesweeperAI.knowledge
    op,          \* the operation that produced this state
    call,        \* <<cell, count>> of the latest add_knowledge call
    appended,    \* the Sentence that call built and appended (line 219)
    closed,      \* knowledge when the closure pass of that call ended (line 228)
    pruned,      \* knowledge when the prune loop of that call ended (line 248)
    prevDerived, \* the Sentences the call before the latest one derived (line 267)
    result,      \* the value the latest move query returned
    raised,      \* whether the latest call ended by raising an exception
    nops,        \* operations performed so far (counted under unconstrained inputs)
    loop         \* where an add_knowledge call in progress stands, with its locals

vars == <<height, width, board, moves_made, mines, safes, knowledge, op, call, appended,
          closed, pruned, prevDerived, result, raised, nops, loop>>

engine == <<moves_made, mines, safes, knowledge>>
trace == <<call, appended, closed, pruned, prevDerived>>

\* Python's None, as returned by a move query that falls off its loop.
None == <<>>

Rows == 0 .. (height - 1)
Cols == 0 .. (width - 1)
Cells == Rows \X Cols

\* ------------------------------------------------------------------ board

is_mine(b, cell) == cell \in b

nearby_mines(b, cell) ==
    Cardinality({c \in b :
        /\ c[1] \in (cell[1] - 1) .. (cell[1] + 1)
        /\ c[2] \in (cell[2] - 1) .. (cell[2] + 1)
        /\ c # cell
        /\ 0 <= c[1] /\ c[1] < height /\ 0 <= c[2] /\ c[2] < width})

\* --------------------------------------------------------------- Sentence

Sentence(cells, count) == [cells |-> cells, count |-> count]

known_mines(s) == IF Cardinality(s.cells) = s.count THEN s.cells ELSE {}

known_safes(s) == IF s.count = 0 THEN s.cells ELSE {}

\* A mark_mine without the `if cell in self.cells` guard of line 126.
SentenceMarkMineAlways(s, cell) ==
    [cells |-> s.cells \ {cell}, count |-> s.count - 1]

\* A mark_mine that removes the cell and forgets `self.count -= 1`.
SentenceMarkMineKeepCount(s, cell) == [s EXCEPT !.cells = s.cells \ {cell}]

SentenceMarkMine(s, cell) ==
    IF cell \in s.cells
    THEN [cells |-> s.cells \ {cell}, count |-> s.count - 1]
    ELSE s

SentenceMarkSafe(s, cell) == [s EXCEPT !.cells = s.cells \ {cell}]

\* ----------------------------------------------------------- MinesweeperAI

\* The engine's own fields, as a value the operators below transform.
Engine(mm, mi, sa, kb) ==
    [moves_made |-> mm, mines |-> mi, safes |-> sa, knowledge |-> kb]

mark_mine(e, cell) ==
    [e EXCEPT !.mines = e.mines \cup {cell},
              !.knowledge = [k \in 1 .. Len(e.knowledge) |->
                                SentenceMarkMine(e.knowledge[k], cell)]]

\* A mark_safe that also takes the cell out of `mines`.
mark_safe_exclusive(e, cell) ==
    [e EXCEPT !.safes = e.safes \cup {cell},
              !.mines = e.mines \ {cell},
              !.knowledge = [k \in 1 .. Len(e.knowledge) |->
                                SentenceMarkSafe(e.knowledge[k], cell)]]

mark_safe(e, cell) ==
    [e EXCEPT !.safes = e.safes \cup {cell},
              !.knowledge = [k \in 1 .. Len(e.knowledge) |->
                                SentenceMarkSafe(e.knowledge[k], cell)]]

is_cell_valid(cell) ==
    ~(cell[1] < 0 \/ cell[1] >= height \/ cell[2] < 0 \/ cell[2] >= width)

\* for cell in known_mines: self.mark_mine(cell)
RECURSIVE MarkMines(_, _)
MarkMines(e, todo) ==
    IF todo = {} THEN e
    ELSE LET c == CHOOSE x \in todo : TRUE
         IN  MarkMines(mark_mine(e, c), todo \ {c})

\* for cell in known_safes: self.mark_safe(cell)
RECURSIVE MarkSafes(_, _)
MarkSafes(e, todo) ==
    IF todo = {} THEN e
    ELSE LET c == CHOOSE x \in todo : TRUE
         IN  MarkSafes(mark_safe(e, c), todo \ {c})

\* The offsets (i, j) of the double loop of lines 211-212, in loop order.
Offsets == [k \in 1 .. 9 |-> <<((k - 1) \div 3) - 1, ((k - 1) % 3) - 1>>]

\* A construction loop that skips known mines without `count -= 1`.
RECURSIVE BuildSentenceKeepCount(_, _, _, _, _)
BuildSentenceKeepCount(e, cell, cells, count, k) ==
    IF k > 9 THEN Sentence(cells, count)
    ELSE LET n == <<cell[1] + Offsets[k][1], cell[2] + Offsets[k][2]>>
         IN  IF is_cell_valid(n) /\ n \notin e.mines /\ n \notin e.moves_made
             THEN BuildSentenceKeepCount(e, cell, cells \cup {n}, count, k + 1)
             ELSE BuildSentenceKeepCount(e, cell, cells, count, k + 1)

\* Lines 210-217: the cells and the count of the new Sentence, from offset k on.
RECURSIVE BuildSentence(_, _, _, _, _)
BuildSentence(e, cell, cells, count, k) ==
    IF k > 9 THEN Sentence(cells, count)
    ELSE LET n == <<cell[1] + Offsets[k][1], cell[2] + Offsets[k][2]>>
         IN  IF is_cell_valid(n)
             THEN IF n \in e.mines
                  THEN BuildSentence(e, cell, cells, count - 1, k + 1)
                  ELSE IF n \notin e.moves_made
                       THEN BuildSentence(e, cell, cells \cup {n}, count, k + 1)
                       ELSE BuildSentence(e, cell, cells, count, k + 1)
             ELSE BuildSentence(e, cell, cells, count, k + 1)

NewSentence(e, cell, count) == BuildSentence(e, cell, {}, count, 1)

\* A scan body that marks the known mines and forgets the known safes.
ClosureStepMinesOnly(e, k) == MarkMines(e, known_mines(e.knowledge[k]))

\* Lines 223-228: the body of the closure scan for the Sentence at index k.
ClosureStep(e, k) ==
    LET e1 == MarkMines(e, known_mines(e.knowledge[k]))
    IN  MarkSafes(e1, known_safes(e1.knowledge[k]))

\* The values knowledge takes after each single mark_mine of line 225.
RECURSIVE MarkMinesTrail(_, _)
MarkMinesTrail(e, todo) ==
    IF todo = {} THEN {}
    ELSE LET c == CHOOSE x \in todo : TRUE
             e1 == mark_mine(e, c)
         IN  {e1.knowledge} \cup MarkMinesTrail(e1, todo \ {c})

\* The values knowledge takes after each single mark_safe of line 228.
RECURSIVE MarkSafesTrail(_, _)
MarkSafesTrail(e, todo) ==
    IF todo = {} THEN {}
    ELSE LET c == CHOOSE x \in todo : TRUE
             e1 == mark_safe(e, c)
         IN  {e1.knowledge} \cup MarkSafesTrail(e1, todo \ {c})

\* Lines 222-228: every value knowledge takes during the scan from index k on.
RECURSIVE ClosureTrail(_, _)
ClosureTrail(e, k) ==
    IF k > Len(e.knowledge) THEN {}
    ELSE LET e1 == MarkMines(e, known_mines(e.knowledge[k]))
         IN  MarkMinesTrail(e, known_mines(e.knowledge[k]))
                 \cup MarkSafesTrail(e1, known_safes(e1.knowledge[k]))
                 \cup ClosureTrail(ClosureStep(e, k), k + 1)

\* A closure that looks at the newly appended Sentence only.
ClosurePassNewOnly(e, k) == ClosureStep(e, Len(e.knowledge))

\* Lines 222-228: one scan over knowledge, from index k on.
RECURSIVE ClosurePass(_, _)
ClosurePass(e, k) ==
    IF k > Len(e.knowledge) THEN e
    ELSE ClosurePass(ClosureStep(e, k), k + 1)

\* del self.knowledge[k]   (k counted from 1)
Delete(kb, k) == SubSeq(kb, 1, k - 1) \o SubSeq(kb, k + 1, Len(kb))

\* An inner loop that compares the Sentences with Sentence.__eq__ (cells and
\* count) where line 242 compares their cells.
RECURSIVE PruneInnerByEq(_, _, _)
PruneInnerByEq(kb, i, j) ==
    IF ~(j <= Len(kb)) THEN kb
    ELSE IF i # j /\ kb[i] = kb[j]
         THEN PruneInnerByEq(Delete(kb, j), i, j)
         ELSE PruneInnerByEq(kb, i, j + 1)

\* Lines 240-247: the inner loop of the prune, i and j counted from 1.
RECURSIVE PruneInner(_, _, _)
PruneInner(kb, i, j) ==
    IF ~(j <= Len(kb)) THEN kb
    ELSE IF i # j /\ kb[i].cells = kb[j].cells
         THEN PruneInner(Delete(kb, j), i, j)
         ELSE PruneInner(kb, i, j + 1)

\* A prune that removes the repeated Sentences and keeps the empty ones.
RECURSIVE PruneOuterKeepEmpty(_, _)
PruneOuterKeepEmpty(kb, i) ==
    IF ~(i <= Len(kb)) THEN kb
    ELSE PruneOuterKeepEmpty(PruneInner(kb, i, i), i + 1)

\* Lines 233-248: the outer loop of the prune.
RECURSIVE PruneOuter(_, _)
PruneOuter(kb, i) ==
    IF ~(i <= Len(kb)) THEN kb
    ELSE IF Cardinality(kb[i].cells) = 0
         THEN PruneOuter(Delete(kb, i), i)
         ELSE PruneOuter(PruneInner(kb, i, i), i + 1)

Prune(kb) == PruneOuter(kb, 1)

\* A pair test that subtracts the counts the wrong way round.
InferPairSwappedCount(s1, s2) ==
    IF s2.cells # {} /\ Cardinality(s1.cells) > Cardinality(s2.cells)
       /\ s2.cells \subseteq s1.cells
    THEN <<Sentence(s1.cells \ s2.cells, s2.count - s1.count)>>
    ELSE IF s2.cells # {} /\ Cardinality(s2.cells) > Cardinality(s1.cells)
            /\ s1.cells \subseteq s2.cells
         THEN <<Sentence(s2.cells \ s1.cells, s1.count - s2.count)>>
         ELSE <<>>

\* A pair test without the elif branch of line 264: only s2 inside s1 is seen.
InferPairOneWay(s1, s2) ==
    IF s2.cells # {} /\ Cardinality(s1.cells) > Cardinality(s2.cells)
       /\ s2.cells \subseteq s1.cells
    THEN <<Sentence(s1.cells \ s2.cells, s1.count - s2.count)>>
    ELSE <<>>

\* Lines 259-265: what the pair (s1, s2) adds to new_knowledges.
InferPair(s1, s2) ==
    LET s1_len == Cardinality(s1.cells)
        s2_len == Cardinality(s2.cells)
    IN  IF s2_len = 0 THEN <<>>
        ELSE IF s1_len > s2_len /\ s2.cells \subseteq s1.cells
             THEN <<Sentence(s1.cells \ s2.cells, s1.count - s2.count)>>
             ELSE IF s2_len > s1_len /\ s1.cells \subseteq s2.cells
                  THEN <<Sentence(s2.cells \ s1.cells, s2.count - s1.count)>>
                  ELSE <<>>

\* Line 258: for j, s2 in enumerate(self.knowledge[i:]), from position j on.
RECURSIVE InferInner(_, _, _)
InferInner(kb, i, j) ==
    IF j > Len(kb) THEN <<>>
    ELSE InferPair(kb[i], kb[j]) \o InferInner(kb, i, j + 1)

\* Lines 253-265: for i, s1 in enumerate(self.knowledge), from position i on.
RECURSIVE InferOuter(_, _)
InferOuter(kb, i) ==
    IF i > Len(kb) THEN <<>>
    ELSE (IF Cardinality(kb[i].cells) = 0 THEN <<>> ELSE InferInner(kb, i, i))
         \o InferOuter(kb, i + 1)

new_knowledges(kb) == InferOuter(kb, 1)

\* Lines 203-206: record the move and mark the cell safe.
Recorded(e, cell) ==
    mark_safe([e EXCEPT !.moves_made = e.moves_made \cup {cell}], cell)

\* add_knowledge(cell, count), lines 203-267, with the values it passes through:
\* the Sentence built (line 219), knowledge after the closure pass (line 228)
\* and after the prune (line 248), and the engine when the call returns.
add_knowledge(e, cell, count) ==
    LET e1 == Recorded(e, cell)
        s  == NewSentence(e1, cell, count)
        e2 == [e1 EXCEPT !.knowledge = Append(e1.knowledge, s)]
        e3 == ClosurePass(e2, 1)
        kb == Prune(e3.knowledge)
    IN  [appended |-> s,
         closed   |-> e3.knowledge,
         pruned   |-> kb,
         final    |-> [e3 EXCEPT !.knowledge = kb \o new_knowledges(kb)]]

\* A make_safe_move without the `not in self.moves_made` test.
SafeMovesAnySafe(sa, mm) == sa

\* Lines 281-283: the cells make_safe_move can return; iteration follows the
\* set's internal order, so any of them may come first.
SafeMoves(sa, mm) == {c \in sa : c \notin mm}

\* A scan that tests `not in self.mines` only.
RECURSIVE RandomScanMinesOnly(_, _, _, _)
RandomScanMinesOnly(mi, mm, i, j) ==
    IF i >= height THEN None
    ELSE IF j >= width THEN RandomScanMinesOnly(mi, mm, i + 1, 0)
         ELSE IF <<i, j>> \notin mi
              THEN <<i, j>>
              ELSE RandomScanMinesOnly(mi, mm, i, j + 1)

\* Lines 292-295: the scan of make_random_move from row i, column j on.
RECURSIVE RandomScan(_, _, _, _)
RandomScan(mi, mm, i, j) ==
    IF i >= height THEN None
    ELSE IF j >= width THEN RandomScan(mi, mm, i + 1, 0)
         ELSE IF <<i, j>> \notin mi /\ <<i, j>> \notin mm
              THEN <<i, j>>
              ELSE RandomScan(mi, mm, i, j + 1)

make_random_move(mi, mm) == RandomScan(mi, mm, 0, 0)

\* ------------------------------------------------------------ the machine

Current == Engine(moves_made, mines, safes, knowledge)

\* No add_knowledge call in progress.  During a call, pc names the loop the
\* call is in and i, j, length, new_knowledges are the locals of lines 231-252
\* (i and j counted from 1).
Idle == [pc |-> "idle", i |-> 0, j |-> 0, length |-> 0, new_knowledges |-> <<>>]

\* Both constructors get the same height and width; Minesweeper.__init__ places
\* the mines; MinesweeperAI.__init__ starts with empty sets and no Sentence.
Init ==
    /\ height \in 1 .. MaxHeight
    /\ width \in 1 .. MaxWidth
    /\ height * width <= MaxCells
    /\ board \in {b \in SUBSET Cells : Cardinality(b) <= MaxMines}
    /\ moves_made = {}
    /\ mines = {}
    /\ safes = {}
    /\ knowledge = <<>>
    /\ op = "init"
    /\ call = <<>>
    /\ appended = Sentence({}, 0)
    /\ closed = <<>>
    /\ pruned = <<>>
    /\ prevDerived = <<>>
    /\ result = None
    /\ raised = FALSE
    /\ nops = 0
    /\ loop = Idle

\* The Sentences the latest add_knowledge call derived (line 267).
Derived == SubSeq(knowledge, Len(pruned) + 1, Len(knowledge))

\* add_knowledge(cell, count), the whole call; it returns None.
DoAddKnowledge(cell, count) ==
    LET r == add_knowledge(Current, cell, count)
    IN  /\ moves_made' = r.final.moves_made
        /\ mines' = r.final.mines
        /\ safes' = r.final.safes
        /\ knowledge' = r.final.knowledge
        /\ op' = "add_knowledge"
        /\ call' = <<cell, count>>
        /\ appended' = r.appended
        /\ closed' = r.closed
        /\ pruned' = r.pruned
        /\ prevDerived' = Derived
        /\ result' = None
        /\ raised' = FALSE
        /\ UNCHANGED <<height, width, board, loop>>

\* The board reveals a cell that holds no mine and reports its true count.
AddKnowledge ==
    \E cell \in Cells :
        /\ ~is_mine(board, cell)
        /\ DoAddKnowledge(cell, nearby_mines(board, cell))
        /\ UNCHANGED nops

MakeSafeMove ==
    /\ \/ \E c \in SafeMoves(safes, moves_made) : result' = c
       \/ SafeMoves(safes, moves_made) = {} /\ result' = None
    /\ op' = "make_safe_move"
    /\ raised' = FALSE
    /\ UNCHANGED <<height, width, board, engine, trace, nops, loop>>

MakeRandomMove ==
    /\ result' = make_random_move(mines, moves_made)
    /\ op' = "make_random_move"
    /\ raised' = FALSE
    /\ UNCHANGED <<height, width, board, engine, trace, nops, loop>>

Next == AddKnowledge \/ MakeSafeMove \/ MakeRandomMove

Spec == Init /\ [][Next]_vars

\* The engine used on its own: any cell, any count, and the public mark_mine
\* and mark_safe, MaxOps mutating calls at most.  No method of MinesweeperAI
\* has a raise statement or an operation that can fail on a pair of integers
\* (Sentence.mark_safe swallows the KeyError of line 136), so `raised` stays FALSE.
AnyAddKnowledge ==
    /\ nops < MaxOps
    /\ \E cell \in Cells, count \in 0 .. MaxMines : DoAddKnowledge(cell, count)
    /\ nops' = nops + 1

\* Coordinates just outside the grid, which is_cell_valid rejects.
OutsideCells == {<<-1, 0>>, <<height - 1, width>>}

\* add_knowledge called with a cell outside the grid: lines 203-267 run as for
\* any other cell, the cell itself is never passed to is_cell_valid.
AddKnowledgeOutside ==
    /\ nops < MaxOps
    /\ \E cell \in OutsideCells, count \in 0 .. MaxMines : DoAddKnowledge(cell, count)
    /\ nops' = nops + 1

MarkMine ==
    /\ nops < MaxOps
    /\ \E cell \in Cells :
           LET e == mark_mine(Current, cell)
           IN  /\ mines' = e.mines
               /\ safes' = e.safes
               /\ moves_made' = e.moves_made
               /\ knowledge' = e.knowledge
    /\ op' = "mark_mine"
    /\ result' = None
    /\ raised' = FALSE
    /\ nops' = nops + 1
    /\ UNCHANGED <<height, width, board, trace, loop>>

MarkSafe ==
    /\ nops < MaxOps
    /\ \E cell \in Cells :
           LET e == mark_safe(Current, cell)
           IN  /\ safes' = e.safes
               /\ mines' = e.mines
               /\ moves_made' = e.moves_made
               /\ knowledge' = e.knowledge
    /\ op' = "mark_safe"
    /\ result' = None
    /\ raised' = FALSE
    /\ nops' = nops + 1
    /\ UNCHANGED <<height, width, board, trace, loop>>

InitAny == Init /\ board = {}

NextAny ==
    \/ AnyAddKnowledge \/ AddKnowledgeOutside \/ MarkMine \/ MarkSafe
    \/ MakeSafeMove \/ MakeRandomMove

SpecAny == InitAny /\ [][NextAny]_vars

\* ------------------------------------------------------------- properties

Range(q) == {q[k] : k \in 1 .. Len(q)}

\* C1: with a board that only reveals cells holding no mine and reports their
\* true counts, every coordinate in `mines` holds a mine, no coordinate in
\* `safes` does, and the coordinate make_safe_move returns holds no mine.
BoardSound ==
    /\ mines \subseteq board
    /\ safes \cap board = {}
    /\ (op = "make_safe_move" /\ result # None) => ~is_mine(board, result)

\* A safe move is offered on a board with mines, some of them already found.
BoardSoundWitness ==
    /\ op = "make_safe_move"
    /\ result # None
    /\ mines # {}
    /\ Cardinality(board) = MaxMines

\* C2: after any sequence of add_knowledge calls with consistent inputs, no
\* coordinate is both in `safes` and in `mines`.
SafesMinesDisjoint == safes \cap mines = {}

SafesMinesDisjointWitness ==
    /\ op = "add_knowledge"
    /\ Cardinality(mines) >= 2
    /\ Cardinality(safes) >= 2

\* C3: when the closure pass of an add_knowledge call has finished, every
\* Sentence with count = |cells| and cells nonempty has all its cells in
\* `mines`, and every Sentence with count = 0 has all its cells in `safes`.
ClosureComplete ==
    op = "add_knowledge" =>
        \A k \in 1 .. Len(closed) :
            /\ (closed[k].cells # {} /\ closed[k].count = Cardinality(closed[k].cells))
                   => closed[k].cells \subseteq mines
            /\ closed[k].count = 0 => closed[k].cells \subseteq safes

\* C4 as stated: when add_knowledge has returned, knowledge holds no Sentence
\* with empty cells and no two structurally equal Sentences.
NoEmptyNoEqual ==
    op = "add_knowledge" =>
        /\ \A k \in 1 .. Len(knowledge) : knowledge[k].cells # {}
        /\ \A i, j \in 1 .. Len(knowledge) : i < j => knowledge[i] # knowledge[j]

\* C4 as amended: when add_knowledge has returned, knowledge holds no Sentence
\* with empty cells, and no two of the Sentences that survived the prune are
\* structurally equal (a Sentence appended by the subset inference may repeat
\* a survivor or another appended Sentence).
NoEmptyNoEqualSurvivors ==
    op = "add_knowledge" =>
        /\ \A k \in 1 .. Len(knowledge) : knowledge[k].cells # {}
        /\ SubSeq(knowledge, 1, Len(pruned)) = pruned
        /\ \A i, j \in 1 .. Len(pruned) : i < j => knowledge[i] # knowledge[j]

\* The prune removed an empty Sentence and a repeated one, and a survivor remains.
NoEmptyNoEqualSurvivorsWitness ==
    /\ op = "add_knowledge"
    /\ \E k \in 1 .. Len(closed) : closed[k].cells = {}
    /\ \E i, j \in 1 .. Len(closed) :
           i < j /\ closed[i].cells # {} /\ closed[i] = closed[j]
    /\ Len(pruned) >= 1

\* The unordered pairs of survivors of which one's cells strictly contain the other's.
SubsetPairs(kb) ==
    {p \in (1 .. Len(kb)) \X (1 .. Len(kb)) :
        /\ p[1] < p[2]
        /\ kb[p[1]].cells # kb[p[2]].cells
        /\ \/ kb[p[1]].cells \subseteq kb[p[2]].cells
           \/ kb[p[2]].cells \subseteq kb[p[1]].cells}

\* The difference a pair stands for: larger minus smaller, cells and count.
Difference(kb, p) ==
    LET a == kb[p[1]]
        b == kb[p[2]]
    IN  IF b.cells \subseteq a.cells
        THEN Sentence(a.cells \ b.cells, a.count - b.count)
        ELSE Sentence(b.cells \ a.cells, b.count - a.count)

\* C5: when add_knowledge returns, for every pair of survivors of the prune
\* with one's cells a strict subset of the other's, knowledge holds their
\* difference; the Sentences appended after the prune are exactly these
\* differences, one per unordered pair, and each has nonempty cells.
SubsetInference ==
    op = "add_knowledge" =>
        /\ knowledge = pruned \o Derived
        /\ \A p \in SubsetPairs(pruned) : Difference(pruned, p) \in Range(knowledge)
        /\ Len(Derived) = Cardinality(SubsetPairs(pruned))
        /\ \A d \in Range(Derived) :
               Cardinality({k \in 1 .. Len(Derived) : Derived[k] = d})
                   = Cardinality({p \in SubsetPairs(pruned) : Difference(pruned, p) = d})
        /\ \A k \in 1 .. Len(Derived) : Derived[k].cells # {}

\* Two differences were derived, one of them from a pair whose later Sentence is the larger.
SubsetInferenceWitness ==
    /\ op = "add_knowledge"
    /\ Len(Derived) >= 2
    /\ \E p \in SubsetPairs(pruned) :
           /\ pruned[p[1]].cells \subseteq pruned[p[2]].cells
           /\ p[2] > p[1] + 1

\* C6: under board-consistent inputs, the cells of a subset-derived Sentence
\* appended with count 0 are all in `safes`, and those of one appended with
\* count = |cells| are all in `mines`, when the next add_knowledge call returns.
DerivedResolved ==
    op = "add_knowledge" =>
        \A k \in 1 .. Len(prevDerived) :
            /\ prevDerived[k].count = 0 => prevDerived[k].cells \subseteq safes
            /\ prevDerived[k].count = Cardinality(prevDerived[k].cells)
                   => prevDerived[k].cells \subseteq mines

\* The call before derived an all-safe Sentence with a cell that is still unplayed.
DerivedResolvedWitness ==
    /\ op = "add_knowledge"
    /\ \E k \in 1 .. Len(prevDerived) :
           /\ prevDerived[k].count = 0
           /\ ~(prevDerived[k].cells \subseteq moves_made)

\* The in-bounds coordinates at Chebyshev distance 1 from cell.
Neighbors(cell) ==
    {n \in Cells : n # cell /\ n[1] - cell[1] \in -1 .. 1 /\ n[2] - cell[2] \in -1 .. 1}

\* C7: for any engine state and any in-bounds cell, the Sentence appended by
\* add_knowledge(cell, count) has as cells the neighbors of cell that are
\* neither in `mines` nor in `moves_made`, and as count the given count minus
\* the number of those neighbors (the cell itself not counted) in `mines`.
NewSentenceFromNeighbors ==
    [][(op' = "add_knowledge" /\ is_cell_valid(call'[1])) =>
        LET cell == call'[1]
            count == call'[2]
        IN  /\ appended'.cells =
                   {n \in Neighbors(cell) : n \notin mines /\ n \notin moves_made}
            /\ appended'.count = count - Cardinality(Neighbors(cell) \cap mines)]_vars

\* C8: under board-consistent inputs, when add_knowledge(cell, 0) returns,
\* every in-bounds neighbor of cell is in `safes`.
ZeroCountReveal ==
    (op = "add_knowledge" /\ call[2] = 0) => Neighbors(call[1]) \subseteq safes

\* The first reveal of a game, of a cell with five unplayed neighbors and count 0.
ZeroCountRevealWitness ==
    /\ op = "add_knowledge"
    /\ call[2] = 0
    /\ moves_made = {call[1]}
    /\ Cardinality(Neighbors(call[1])) = 5

\* C9: make_safe_move returns a coordinate in `safes` and not in `moves_made`
\* when there is one, None exactly when there is none, and leaves `safes`,
\* `mines`, `moves_made` and `knowledge` as they were.
SafeMoveContract ==
    [][op' = "make_safe_move" =>
        /\ result' \in (safes \ moves_made) \cup {None}
        /\ result' = None <=> safes \ moves_made = {}
        /\ UNCHANGED <<safes, mines, moves_made, knowledge>>]_vars

\* A safe move is returned while some safe cells are already played.
SafeMoveContractWitness ==
    /\ op = "make_safe_move"
    /\ result # None
    /\ safes \cap moves_made # {}
    /\ Cardinality(safes \ moves_made) >= 2

\* The row-major position of a cell.
RowMajor(c) == c[1] * width + c[2]

SetsOnlyGrow ==
    [][/\ safes \subseteq safes'
       /\ mines \subseteq mines'
       /\ moves_made \subseteq moves_made']_vars

\* A mark_safe has run on an engine whose three sets are all nonempty.
SetsOnlyGrowWitness ==
    /\ op = "mark_safe"
    /\ mines # {}
    /\ moves_made # {}
    /\ Cardinality(safes) >= 2

\* The cells the public methods are called with.
AnyCells == Cells \cup OutsideCells

\* C12: for every engine state and every cell c, mark_safe(c) twice yields the
\* same state as mark_safe(c) once, and the same for mark_mine(c): a
\* Sentence's count is decremented at most once per cell.
MarkIdempotent ==
    \A c \in AnyCells :
        /\ mark_safe(mark_safe(Current, c), c) = mark_safe(Current, c)
        /\ mark_mine(mark_mine(Current, c), c) = mark_mine(Current, c)

\* A mark_mine has run and a held Sentence still has a cell whose marking
\* as a mine changes the Sentence's count.
MarkIdempotentWitness ==
    /\ op = "mark_mine"
    /\ \E k \in 1 .. Len(knowledge) :
           /\ knowledge[k].cells # {}
           /\ \E c \in knowledge[k].cells :
                  mark_mine(Current, c).knowledge[k].count = knowledge[k].count - 1

\* Every Sentence of kb has 0 <= count <= |cells|.
CountsWithinCells(kb) ==
    \A k \in 1 .. Len(kb) :
        0 <= kb[k].count /\ kb[k].count <= Cardinality(kb[k].cells)

\* C13: under board-consistent inputs every held Sentence has
\* 0 <= count <= |cells| after every mutation made by an add_knowledge call
\* (the mark_safe of the cell, the append, every mark of the closure pass, the
\* prune, the subset inference) and so in every state at the end of a call.
CountInvariant ==
    [][op' = "add_knowledge" =>
        LET e1 == Recorded(Current, call'[1])
            e2 == [e1 EXCEPT !.knowledge = Append(e1.knowledge, appended')]
        IN  /\ CountsWithinCells(e1.knowledge)
            /\ CountsWithinCells(e2.knowledge)
            /\ \A kb \in ClosureTrail(e2, 1) : CountsWithinCells(kb)
            /\ CountsWithinCells(closed')
            /\ CountsWithinCells(pruned')
            /\ CountsWithinCells(knowledge')]_vars

\* A call has appended a Sentence with a nonzero count and derived another
\* from a nested pair, after a call that had derived one too.
CountInvariantWitness ==
    /\ op = "add_knowledge"
    /\ appended.count > 0
    /\ \E k \in 1 .. Len(Derived) : Derived[k].count > 0
    /\ \E k \in 1 .. Len(prevDerived) : prevDerived[k].count > 0

\* C14: add_knowledge called with a cell outside the grid reports a failure
\* and leaves `moves_made`, `safes`, `mines` and `knowledge` unchanged.
InvalidInputRejected ==
    [][(op' = "add_knowledge" /\ ~is_cell_valid(call'[1])) =>
        /\ raised'
        /\ UNCHANGED <<moves_made, safes, mines, knowledge>>]_vars

\* C15: for any sequence of add_knowledge calls, contradictory ones included,
\* no Sentence with a negative count is appended to or derived into
\* knowledge; a call that would produce one aborts and reports it instead.
NoNegativeCount ==
    op = "add_knowledge" =>
        \/ raised
        \/ /\ appended.count >= 0
           /\ \A k \in 1 .. Len(knowledge) : knowledge[k].count >= 0

\* C16: a coordinate already in `safes` is never added to `mines` and one
\* already in `mines` is never added to `safes`; an operation that would do so
\* fails instead, so `safes` and `mines` stay disjoint at all times.
ConflictsFatal ==
    [][/\ (mines' \ mines) \cap safes = {}
       /\ (safes' \ safes) \cap mines = {}
       /\ safes' \cap mines' = {}]_vars

\* C17: when an add_knowledge call returns, no held Sentence's cells contain a
\* coordinate that is in `safes` or in `mines`; so the new Sentence holds no
\* neighbor proven safe before the call, played or not.
ResolvedCellsLeave ==
    op = "add_knowledge" =>
        \A k \in 1 .. Len(knowledge) :
            knowledge[k].cells \cap (safes \cup mines) = {}

\* The positions of kb whose Sentence has nonempty cells that no earlier
\* Sentence of kb has.
EarliestNonEmpty(kb) ==
    {i \in 1 .. Len(kb) :
        /\ kb[i].cells # {}
        /\ \A j \in 1 .. (i - 1) : kb[j].cells # kb[i].cells}

\* The n-th smallest element of a set of positions.
NthOf(S, n) == CHOOSE i \in S : Cardinality({j \in S : j <= i}) = n

\* C18: for every list held when the prune loop starts, when it ends the list
\* holds no Sentence with empty cells and no two with identical cells, every
\* nonempty cell set that was present is present exactly once, the survivor
\* for each cell set is its earliest occurrence, and the survivors keep their
\* relative order.
PruneKeepsEarliest ==
    op = "add_knowledge" =>
        /\ \A n \in 1 .. Len(pruned) : pruned[n].cells # {}
        /\ \A m, n \in 1 .. Len(pruned) : m < n => pruned[m].cells # pruned[n].cells
        /\ \A k \in 1 .. Len(closed) :
               closed[k].cells # {} =>
                   Cardinality({n \in 1 .. Len(pruned) : pruned[n].cells = closed[k].cells}) = 1
        /\ Len(pruned) = Cardinality(EarliestNonEmpty(closed))
        /\ \A n \in 1 .. Len(pruned) : pruned[n] = closed[NthOf(EarliestNonEmpty(closed), n)]

\* The loop started on a list with an empty Sentence and with two Sentences of
\* identical cells and different counts, and ended with two survivors or more.
PruneKeepsEarliestWitness ==
    /\ op = "add_knowledge"
    /\ \E k \in 1 .. Len(closed) : closed[k].cells = {}
    /\ \E i, j \in 1 .. Len(closed) :
           /\ i < j
           /\ closed[i].cells # {}
           /\ closed[i].cells = closed[j].cells
           /\ closed[i].count # closed[j].count
    /\ Len(pruned) >= 2

\* ------------------------------------------- add_knowledge, loop by loop

\* Calls and marks performed when add_knowledge runs loop by loop.
MaxCalls == 2

\* Lines 203-219: record the move, build the Sentence and append it; the
\* closure scan of line 222 is about to start.
BeginCall ==
    /\ loop.pc = "idle"
    /\ nops < MaxCalls
    /\ \E cell \in AnyCells, count \in 0 .. MaxMines :
           LET e1 == Recorded(Current, cell)
               s  == NewSentence(e1, cell, count)
           IN  /\ moves_made' = e1.moves_made
               /\ mines' = e1.mines
               /\ safes' = e1.safes
               /\ knowledge' = Append(e1.knowledge, s)
               /\ call' = <<cell, count>>
               /\ appended' = s
    /\ prevDerived' = Derived
    /\ op' = "running"
    /\ loop' = [Idle EXCEPT !.pc = "closure", !.i = 1]
    /\ result' = None
    /\ raised' = FALSE
    /\ UNCHANGED <<height, width, board, closed, pruned, nops>>

\* Lines 222-228: the body of the closure scan for the next Sentence.
ClosureIter ==
    /\ loop.pc = "closure"
    /\ loop.i <= Len(knowledge)
    /\ LET e == ClosureStep(Current, loop.i)
       IN  /\ moves_made' = e.moves_made
           /\ mines' = e.mines
           /\ safes' = e.safes
           /\ knowledge' = e.knowledge
    /\ loop' = [loop EXCEPT !.i = loop.i + 1]
    /\ UNCHANGED <<height, width, board, op, trace, result, raised, nops>>

\* The closure scan is exhausted; lines 231-232 set length and i.
ClosureEnd ==
    /\ loop.pc = "closure"
    /\ ~(loop.i <= Len(knowledge))
    /\ closed' = knowledge
    /\ loop' = [loop EXCEPT !.pc = "prune", !.i = 1, !.length = Len(knowledge)]
    /\ UNCHANGED <<height, width, board, engine, op, call, appended, pruned,
                   prevDerived, result, raised, nops>>

\* Lines 233-237: the Sentence at i has no cells; delete it and stay at i.
PruneEmpty ==
    /\ loop.pc = "prune"
    /\ loop.i <= loop.length
    /\ Cardinality(knowledge[loop.i].cells) = 0
    /\ knowledge' = Delete(knowledge, loop.i)
    /\ loop' = [loop EXCEPT !.length = loop.length - 1]
    /\ UNCHANGED <<height, width, board, moves_made, mines, safes, op, trace,
                   result, raised, nops>>

\* Lines 233-239: the Sentence at i has cells; j = i.
PruneEnter ==
    /\ loop.pc = "prune"
    /\ loop.i <= loop.length
    /\ Cardinality(knowledge[loop.i].cells) # 0
    /\ loop' = [loop EXCEPT !.pc = "prune_inner", !.j = loop.i]
    /\ UNCHANGED <<height, width, board, engine, op, trace, result, raised, nops>>

\* An inner iteration that takes the `continue` of line 245 without the
\* deletion of lines 243-244.
PruneInnerIterNoDelete(kb, length, i, j) ==
    IF i # j /\ kb[i].cells = kb[j].cells
    THEN [knowledge |-> kb, length |-> length, j |-> j]
    ELSE [knowledge |-> kb, length |-> length, j |-> j + 1]

\* Lines 241-247: one iteration of the inner loop of the prune.
PruneInnerIter(kb, length, i, j) ==
    IF i # j /\ kb[i].cells = kb[j].cells
    THEN [knowledge |-> Delete(kb, j), length |-> length - 1, j |-> j]
    ELSE [knowledge |-> kb, length |-> length, j |-> j + 1]

PruneInnerStep ==
    /\ loop.pc = "prune_inner"
    /\ loop.j <= loop.length
    /\ LET r == PruneInnerIter(knowledge, loop.length, loop.i, loop.j)
       IN  /\ knowledge' = r.knowledge
           /\ loop' = [loop EXCEPT !.length = r.length, !.j = r.j]
    /\ UNCHANGED <<height, width, board, moves_made, mines, safes, op, trace,
                   result, raised, nops>>

\* Lines 240, 248: the inner loop is exhausted; i += 1.
PruneInnerEnd ==
    /\ loop.pc = "prune_inner"
    /\ ~(loop.j <= loop.length)
    /\ loop' = [loop EXCEPT !.pc = "prune", !.i = loop.i + 1]
    /\ UNCHANGED <<height, width, board, engine, op, trace, result, raised, nops>>

\* Lines 233, 251: the outer loop is exhausted; new_knowledges = list().
PruneEnd ==
    /\ loop.pc = "prune"
    /\ ~(loop.i <= loop.length)
    /\ pruned' = knowledge
    /\ loop' = [loop EXCEPT !.pc = "infer", !.i = 1, !.new_knowledges = <<>>]
    /\ UNCHANGED <<height, width, board, engine, op, call, appended, closed,
                   prevDerived, result, raised, nops>>

\* Lines 253-265: the body of the subset-inference scan for the next s1.
InferIter ==
    /\ loop.pc = "infer"
    /\ loop.i <= Len(knowledge)
    /\ loop' = [loop EXCEPT
                   !.i = loop.i + 1,
                   !.new_knowledges =
                       loop.new_knowledges \o
                       (IF Cardinality(knowledge[loop.i].cells) = 0 THEN <<>>
                        ELSE InferInner(knowledge, loop.i, loop.i))]
    /\ UNCHANGED <<height, width, board, engine, op, trace, result, raised, nops>>

\* Line 267: the scan is exhausted; extend knowledge and return.
InferEnd ==
    /\ loop.pc = "infer"
    /\ ~(loop.i <= Len(knowledge))
    /\ knowledge' = knowledge \o loop.new_knowledges
    /\ op' = "add_knowledge"
    /\ loop' = Idle
    /\ nops' = nops + 1
    /\ UNCHANGED <<height, width, board, moves_made, mines, safes, trace, result,
                   raised>>

\* The public mark_mine and mark_safe between two calls.
MarkMineBetween == loop.pc = "idle" /\ nops < MaxCalls /\ MarkMine

MarkSafeBetween == loop.pc = "idle" /\ nops < MaxCalls /\ MarkSafe

\* The steps of a call in progress.
CallStep ==
    \/ ClosureIter \/ ClosureEnd
    \/ PruneEmpty \/ PruneEnter \/ PruneInnerStep \/ PruneInnerEnd \/ PruneEnd
    \/ InferIter \/ InferEnd

NextSteps == BeginCall \/ MarkMineBetween \/ MarkSafeBetween \/ CallStep

\* The interpreter runs a call it has started: a step that can be taken is
\* taken.
SpecSteps == InitAny /\ [][NextSteps]_vars /\ WF_vars(CallStep)

\* C19: for every engine state and every input, a call to add_knowledge
\* terminates: the closure scan, the prune loop and the subset-inference scan
\* each finish, and the call returns.
Terminates ==
    /\ (loop.pc = "closure") ~> (loop.pc = "prune")
    /\ (loop.pc \in {"prune", "prune_inner"}) ~> (loop.pc = "infer")
    /\ (loop.pc = "infer") ~> (loop.pc = "idle")

\* A call has returned whose prune loop deleted a Sentence while iterating.
TerminatesWitness ==
    /\ loop.pc = "idle"
    /\ op = "add_knowledge"
    /\ Len(closed) >= 2
    /\ Len(pruned) < Len(closed)
    /\ Len(pruned) >= 1

====
